---- MODULE Spec2Model ----
(***************************************************************************)
(* Verification model of the multi-agent consultation service.             *)
(*                                                                         *)
(* Part A  (SpecStore): SimpleMemoryStore and the per-agent endpoints of   *)
(*          api/agent_endpoints.py that drive it.                          *)
(* Part B  (SpecChat):  the /chat and /chat/test endpoints of api/main.py, *)
(*          EnhancedWorkflowManager and DebateModerator.                   *)
(* Part C  (SpecModerator): DebateModerator.moderate_debate applied to any *)
(*          agent_responses it can be handed.                              *)
(* Part D  (SpecAgents): GPTAgent and ClovaAgent, analyze_and_respond and   *)
(*          calculate_confidence applied to any provider answer.           *)
(* SpecFollowUp and SpecTurns run the endpoints of parts A and B on         *)
(* sequential requests; SpecAnswer runs the chat endpoints from the return  *)
(* of the workflow on.                                                     *)
(*                                                                         *)
(* asyncio runs one coroutine at a time and switches only at an await that *)
(* really suspends, so every action below is the code between two such     *)
(* suspension points.                                                      *)
(***************************************************************************)
EXTENDS Integers, Sequences, FiniteSets, TLC

\* ------------------------------------------------------------------------
\* Bounds of the model
\* ------------------------------------------------------------------------
MaxTurns == 2
MaxChatRequests == 1
MaxSequentialTurns == 2

None == "None"

\* ------------------------------------------------------------------------
\* Part A: SimpleMemoryStore and process_agent_request
\* ------------------------------------------------------------------------
VARIABLES sessions, conversations, req

\* the answer to the last DELETE /api/session/{session_id}
VARIABLE cleared

\* Part B: the SessionManager's sessions, the chat turn in progress, the
\* monitor's counters, the number of chat requests received
VARIABLES managed, turn, metrics, received

\* Part D: the last analyze_and_respond call made on an expert, with the
\* provider's answer and what the call handed back
VARIABLE expert_call

\* Part E: the HybridRAGEngine.search call in progress or last made, with
\* what each store did and what the call handed back
VARIABLE rag_search

storeVars == <<sessions, conversations, req, cleared>>

chatVars == <<managed, turn, metrics, received>>

agentVars == <<expert_call>>

ragVars == <<rag_search>>

vars ==
    <<sessions, conversations, req, cleared, managed, turn, metrics, received,
      expert_call, rag_search>>

\* two request slots: a request in flight and one that overlaps it
Reqs == {1, 2}

\* the agents the /api/<agent> endpoints serve
AgentNames == {"gpt", "clova"}

Messages == {"m1", "m2"}

ResponseTexts == {"r1"}

\* session ids a client sends in request.session_id
ClientSessionIds == {"gpt_user_session"}

\* f"{agent_name}_user_session"
DefaultSessionId(agent_name) ==
    CASE agent_name = "gpt" -> "gpt_user_session"
      [] agent_name = "claude" -> "claude_user_session"
      [] agent_name = "gemini" -> "gemini_user_session"
      [] agent_name = "clova" -> "clova_user_session"

(***************************************************************************)
(* List objects.  self.conversations[id] is a Python list that             *)
(* get_conversation_history hands out by reference and that the session     *)
(* document aliases.  A reference is                                        *)
(*   Fresh       a [] literal of its own (nothing appends to it),           *)
(*   Stored      the list now stored under the holder's session id,         *)
(*   Detached(n) a list delete_session removed from the store while the     *)
(*               holder kept it: nothing can append to it any more, so      *)
(*               only its length n is left to observe.                      *)
(***************************************************************************)
Fresh == [kind |-> "fresh", len |-> 0]

Stored == [kind |-> "stored", len |-> 0]

Detached(n) == [kind |-> "detached", len |-> n]

\* len(x) of the list reference ref held for session_id
ListLen(cs, session_id, ref) ==
    IF ref.kind = "stored" THEN Len(cs[session_id]) ELSE ref.len

\* the session document process_agent_request and /session/new build
NewSessionDoc == [conversation_count |-> 0, conversation_history |-> Fresh]

\* the value None where a session document is expected
NoDoc == [conversation_count |-> -1, conversation_history |-> Fresh]

\* SimpleMemoryStore.set_session
set_session(ss, session_id, session_data) ==
    [s \in (DOMAIN ss) \cup {session_id} |->
        IF s = session_id THEN session_data ELSE ss[s]]

\* SimpleMemoryStore.get_session: None when the id has no document
get_session(ss, session_id) ==
    IF session_id \in DOMAIN ss THEN ss[session_id] ELSE NoDoc

\* a history lookup answering a fresh [] for every id
get_conversation_history_empty(cs, session_id) == Fresh

\* SimpleMemoryStore.get_conversation_history: the stored list object itself,
\* or a fresh [] when the id has none
get_conversation_history(cs, session_id) ==
    IF session_id \in DOMAIN cs THEN Stored ELSE Fresh

\* the number of turns the store holds, over all sessions
RECURSIVE SumLen(_, _)
SumLen(cs, ids) ==
    IF ids = {} THEN 0
    ELSE LET s == CHOOSE x \in ids : TRUE
         IN  Len(cs[s]) + SumLen(cs, ids \ {s})

StoredTurns(cs) == SumLen(cs, DOMAIN cs)

\* del d[k] guarded by "k in d"
DictDel(d, k) == [s \in (DOMAIN d) \ {k} |-> d[s]]

EmptyRequest ==
    [pc |-> "idle", agent_name |-> None, session_id |-> None, message |-> None,
     conversation_history |-> Fresh, read_len |-> 0, overlap |-> {},
     status |-> 0, conversation_length |-> 0]

\* no DELETE answered yet
NotCleared == [status |-> 0, found |-> FALSE]

InitStore ==
    /\ sessions = <<>>
    /\ conversations = <<>>
    /\ req = [r \in Reqs |-> EmptyRequest]
    /\ cleared = NotCleared

\* process_agent_request up to the await of the agent call; the request takes
\* a slot no request is using
AgentRequestStart(r, agent_name, sid, message) ==
    LET session_id == IF sid # None THEN sid ELSE DefaultSessionId(agent_name)
        session_data == get_session(sessions, session_id)
        ref == get_conversation_history(conversations, session_id)
        n == ListLen(conversations, session_id, ref)
    IN  /\ req[r].pc # "calling"
        /\ \A q \in Reqs : q < r => req[q].pc = "calling"
        /\ sessions' = IF session_data = NoDoc
                       THEN set_session(sessions, session_id, NewSessionDoc)
                       ELSE sessions
        /\ req' = [q \in Reqs |->
                     IF q = r
                     THEN [EmptyRequest EXCEPT
                             !.pc = "calling", !.agent_name = agent_name,
                             !.session_id = session_id, !.message = message,
                             !.conversation_history = ref, !.read_len = n,
                             !.overlap = {o \in Reqs \ {r} :
                                             /\ req[o].pc = "calling"
                                             /\ req[o].session_id = session_id
                                             /\ req[o].read_len = n}]
                     ELSE [req[q] EXCEPT !.overlap = @ \ {r}]]
        /\ UNCHANGED <<conversations, cleared>>
        /\ UNCHANGED chatVars
        /\ UNCHANGED agentVars
        /\ UNCHANGED ragVars

\* SimpleMemoryStore.add_conversation: what it returns.  Nothing between the
\* try and the return True raises on the dicts and lists the store holds, so
\* the except branch is not taken
add_conversation_returns(ss, cs, session_id) == TRUE

\* SimpleMemoryStore.add_conversation: the new <<sessions, conversations>>
add_conversation(ss, cs, session_id, user_message, bot_response) ==
    LET old == IF session_id \in DOMAIN cs THEN cs[session_id] ELSE <<>>
        new == Append(old, [user_message |-> user_message,
                            bot_response |-> bot_response])
        cs1 == [s \in (DOMAIN cs) \cup {session_id} |->
                   IF s = session_id THEN new ELSE cs[s]]
        ss1 == IF session_id \in DOMAIN ss
               THEN [ss EXCEPT ![session_id] =
                       [conversation_count |-> Len(cs1[session_id]),
                        conversation_history |-> Stored]]
               ELSE ss
    IN  <<ss1, cs1>>

\* process_agent_request after the agent has answered: save the turn and reply
AgentRequestReturn(r, response_text) ==
    LET q == req[r]
        bot_response == <<q.agent_name, response_text>>
        after == add_conversation(sessions, conversations,
                                  q.session_id, q.message, bot_response)
    IN  /\ q.pc = "calling"
        /\ sessions' = after[1]
        /\ conversations' = after[2]
        /\ req' = [req EXCEPT ![r].pc = "done", ![r].status = 200,
                     ![r].message = None, ![r].conversation_history = Fresh,
                     ![r].conversation_length =
                         ListLen(after[2], q.session_id, q.conversation_history) + 1]
        /\ UNCHANGED cleared
        /\ UNCHANGED chatVars
        /\ UNCHANGED agentVars
        /\ UNCHANGED ragVars

\* a failing request that stores the error text as a turn before it answers
AgentRequestFailSavesTurn(r) ==
    LET q == req[r]
        after == add_conversation(sessions, conversations, q.session_id,
                                  q.message, <<q.agent_name, "error">>)
    IN  /\ q.pc = "calling"
        /\ sessions' = after[1]
        /\ conversations' = after[2]
        /\ req' = [req EXCEPT ![r].pc = "done", ![r].status = 500,
                              ![r].message = None,
                              ![r].conversation_history = Fresh]
        /\ UNCHANGED cleared
        /\ UNCHANGED chatVars
        /\ UNCHANGED agentVars
        /\ UNCHANGED ragVars

\* the agent call raises: process_agent_request answers with an HTTP error
AgentRequestFail(r) ==
    /\ req[r].pc = "calling"
    /\ req' = [req EXCEPT ![r].pc = "done", ![r].status = 500,
                          ![r].message = None,
                          ![r].conversation_history = Fresh]
    /\ UNCHANGED <<sessions, conversations, cleared>>
    /\ UNCHANGED chatVars
    /\ UNCHANGED agentVars
    /\ UNCHANGED ragVars

\* SimpleMemoryStore.delete_session: what it returns.  The two guarded dels
\* do not raise, so the except branch is not taken
delete_session_returns(ss, cs, session_id) == TRUE

\* a delete that empties the whole store
delete_every_session(ss, cs, session_id) == << <<>>, <<>> >>

\* SimpleMemoryStore.delete_session: the new <<sessions, conversations>>
delete_session(ss, cs, session_id) ==
    <<IF session_id \in DOMAIN ss THEN DictDel(ss, session_id) ELSE ss,
      IF session_id \in DOMAIN cs THEN DictDel(cs, session_id) ELSE cs>>

\* DELETE /api/session/{session_id}: 200 when delete_session answers true,
\* 404 otherwise
ClearSession(session_id) ==
    LET after == delete_session(sessions, conversations, session_id)
        success == delete_session_returns(sessions, conversations, session_id)
    IN  /\ sessions' = after[1]
        /\ conversations' = after[2]
        /\ cleared' = [status |-> IF success THEN 200 ELSE 404,
                       found |-> \/ session_id \in DOMAIN sessions
                                 \/ session_id \in DOMAIN conversations]
        /\ req' = [r \in Reqs |->
                     IF /\ req[r].session_id = session_id
                        /\ req[r].conversation_history.kind = "stored"
                     THEN [req[r] EXCEPT !.conversation_history =
                             Detached(Len(conversations[session_id]))]
                     ELSE req[r]]
        /\ UNCHANGED chatVars
        /\ UNCHANGED agentVars
        /\ UNCHANGED ragVars

\* the session ids a request can carry
KnownSessionIds == ClientSessionIds

\* the session ids the store can hold
SessionIds ==
    KnownSessionIds \cup {DefaultSessionId(a) : a \in AgentNames}

NextStore ==
    \/ \E r \in Reqs, a \in AgentNames, sid \in KnownSessionIds \cup {None},
          m \in Messages : AgentRequestStart(r, a, sid, m)
    \/ \E r \in Reqs, t \in ResponseTexts :
          /\ StoredTurns(conversations) < MaxTurns
          /\ AgentRequestReturn(r, t)
    \/ \E r \in Reqs : AgentRequestFail(r)
    \/ \E sid \in SessionIds : ClearSession(sid)

\* the turns of the list object a request holds as conversation_history and
\* hands to the agent in AgentState(conversation_history=...)
HandedHistory(cs, session_id, ref) ==
    IF ref.kind = "stored" THEN cs[session_id] ELSE <<>>

\* the experts served through AgentState and analyze_and_respond
ExpertEndpoints == {"gpt", "gemini", "clova"}

\* sequential requests to the three expert endpoints: a first request, then
\* follow-ups with or without its session id, and session deletes
NextFollowUp ==
    \/ \E a \in ExpertEndpoints, sid \in KnownSessionIds \cup {None},
          m \in Messages : AgentRequestStart(1, a, sid, m)
    \/ \E t \in ResponseTexts :
          /\ StoredTurns(conversations) < MaxTurns
          /\ AgentRequestReturn(1, t)
    \/ AgentRequestFail(1)
    \/ \E sid \in KnownSessionIds \cup {DefaultSessionId(a) : a \in ExpertEndpoints} :
          ClearSession(sid)

\* ------------------------------------------------------------------------
\* Part D: GPTAgent and ClovaAgent, analyze_and_respond as a function of
\* what the provider answers.  Confidences are in hundredths.
\* ------------------------------------------------------------------------

\* len(response_text): around the thresholds of calculate_confidence
ResponseLengths ==
    {0, 1, 99, 100, 101, 199, 200, 201, 499, 500, 501, 799, 800, 801, 5000}

\* token_usage as calculate_confidence is handed it: not given (None or an
\* empty dict), or with completion_tokens around the thresholds
TokenUsages ==
    {[given |-> FALSE, completion_tokens |-> 0]}
    \cup [given : {TRUE},
          completion_tokens : {0, 1, 299, 300, 301, 999, 1000, 1001, 100000}]

\* min(hi, max(lo, x))
MinMax(lo, hi, x) ==
    LET m == IF x > lo THEN x ELSE lo
    IN  IF m < hi THEN m ELSE hi

\* a confidence that grows with the length of the response and is not
\* clamped
confidence_by_length(response_length, token_usage) == 80 + response_length \div 10

\* GPTAgent.calculate_confidence
GPTAgent_calculate_confidence(response_length, token_usage) ==
    LET by_length ==
            IF response_length > 800 THEN 80 + 10
            ELSE IF response_length < 200 THEN 80 - 20
            ELSE 80
        by_tokens ==
            IF ~ token_usage.given THEN by_length
            ELSE IF token_usage.completion_tokens > 1000 THEN by_length + 5
            ELSE IF token_usage.completion_tokens < 300 THEN by_length - 10
            ELSE by_length
    IN  MinMax(30, 95, by_tokens)

\* ClovaAgent.calculate_confidence
ClovaAgent_calculate_confidence(response_length) ==
    LET by_length ==
            IF response_length > 500 THEN 70 + 10
            ELSE IF response_length < 100 THEN 70 - 20
            ELSE 70
    IN  MinMax(30, 90, by_length + 5)

NoExpertCall ==
    [agent |-> "None", answer |-> "None", response_length |-> 0,
     token_usage |-> [given |-> FALSE, completion_tokens |-> 0],
     raised |-> FALSE, error_kind |-> "None", confidence |-> 0]

InitAgents == expert_call = NoExpertCall

\* what the OpenAI client does on chat.completions.create
GPTAnswers == {"completion", "rate_limit_error", "authentication_error", "other_error"}

\* GPTAgent.analyze_and_respond
GPTAnalyzeAndRespond(answer, response_length, token_usage) ==
    /\ token_usage.given
    /\ answer # "completion" =>
          (response_length = 0 /\ token_usage.completion_tokens = 0)
    /\ expert_call' =
         IF answer = "completion"
         THEN     [NoExpertCall EXCEPT
                     !.agent = "gpt", !.answer = answer,
                     !.response_length = response_length,
                     !.token_usage = token_usage,
                     !.confidence = GPTAgent_calculate_confidence(
                                        response_length, token_usage)]
         ELSE [NoExpertCall EXCEPT
                 !.agent = "gpt", !.answer = answer, !.raised = TRUE,
                 !.error_kind =
                     CASE answer = "rate_limit_error" -> "RATE_LIMIT"
                       [] answer = "authentication_error" -> "AUTH_ERROR"
                       [] OTHER -> "ANALYSIS_ERROR"]
    /\ UNCHANGED <<storeVars, chatVars>>
    /\ UNCHANGED ragVars

\* GPTAgent.calculate_confidence called with the token_usage left out or
\* empty
GPTCalculateConfidence(response_length, token_usage) ==
    /\ expert_call' =
         [NoExpertCall EXCEPT
            !.agent = "gpt", !.answer = "calculate_confidence",
            !.response_length = response_length,
            !.token_usage = token_usage,
            !.confidence = GPTAgent_calculate_confidence(response_length,
                                                         token_usage)]
    /\ UNCHANGED <<storeVars, chatVars>>
    /\ UNCHANGED ragVars

\* what the Clova provider does on the POST of _call_clova_api: HTTP 200
\* with a JSON body (its message text of any length, none being length 0),
\* another status, or no answer
ClovaAnswers == {"http_200", "http_error", "transport_error"}

\* the error_type of the AgentError the caller of
\* ClovaAgent.analyze_and_respond sees: the except Exception of the method
\* catches the AgentErrors raised inside its try and raises its own
ClovaErrorKind(answer, response_length) == "ANALYSIS_ERROR"

\* ClovaAgent.analyze_and_respond
ClovaAnalyzeAndRespond(answer, response_length) ==
    /\ answer # "http_200" => response_length = 0
    /\ expert_call' =
         IF answer = "http_200" /\ response_length > 0
         THEN [NoExpertCall EXCEPT
                 !.agent = "clova", !.answer = answer,
                 !.response_length = response_length,
                 !.confidence = ClovaAgent_calculate_confidence(response_length)]
         ELSE [NoExpertCall EXCEPT
                 !.agent = "clova", !.answer = answer, !.raised = TRUE,
                 !.error_kind = ClovaErrorKind(answer, response_length)]
    /\ UNCHANGED <<storeVars, chatVars>>
    /\ UNCHANGED ragVars

NextAgents ==
    \/ \E answer \in GPTAnswers, n \in ResponseLengths, u \in TokenUsages :
          GPTAnalyzeAndRespond(answer, n, u)
    \/ \E n \in ResponseLengths, u \in TokenUsages :
          GPTCalculateConfidence(n, u)
    \/ \E answer \in ClovaAnswers, n \in ResponseLengths :
          ClovaAnalyzeAndRespond(answer, n)

\* ------------------------------------------------------------------------
\* Part E: HybridRAGEngine.search over ChromaEngine and ElasticsearchEngine.
\* A RAGResult is its content, its score (an integer here) and its source.
\* ------------------------------------------------------------------------

RagContents == {"doc_a", "doc_b", "doc_c"}

RagScores == {1, 2}

TopKs == {0, 1, 2, 3}

\* the hits a store answers a query with when asked for at most n: ranked by
\* score, one hit per document (the stores key documents by the md5 of
\* their content)
StoreHits(n, source) ==
    LET Hit == [content : RagContents, score : RagScores, source : {source}]
    IN  {h \in UNION {[1..m -> Hit] : m \in 0..2} :
            /\ Len(h) <= n
            /\ \A i, j \in 1..Len(h) :
                  i < j => (h[i].content # h[j].content /\ h[i].score >= h[j].score)}

\* what a store does on one query: it answers with hits, or the call fails
StoreOutcomes(n, source) ==
    {[fails |-> TRUE, hits |-> <<>>]}
    \cup {[fails |-> FALSE, hits |-> h] : h \in StoreHits(n, source)}

\* what asyncio.gather(..., return_exceptions=True) hands back for one
\* engine: a list, or the exception the engine's search raised
AsList(items) == [is_list |-> TRUE, items |-> items]

\* ChromaEngine.search / ElasticsearchEngine.search: the hits as RAGResults,
\* or [] from the except Exception that wraps the whole body
EngineSearch(outcome) ==
    IF outcome.fails THEN AsList(<<>>) ELSE AsList(outcome.hits)

\* hashlib.md5(content.encode()).hexdigest(): distinct contents of the model
\* have distinct digests
ContentHash(content) == <<"md5", content>>

\* one step of sorted(..., key=score, reverse=True): x goes behind every
\* element that does not score lower, so that equal scores keep their order
RECURSIVE InsertByScore(_, _)
InsertByScore(sorted, x) ==
    IF sorted = <<>> THEN <<x>>
    ELSE IF Head(sorted).score >= x.score
         THEN <<Head(sorted)>> \o InsertByScore(Tail(sorted), x)
         ELSE <<x>> \o sorted

\* the results in the order they were gathered
Unsorted(results) == results

RECURSIVE SortedByScore(_)
SortedByScore(results) ==
    IF results = <<>> THEN <<>>
    ELSE InsertByScore(SortedByScore(SubSeq(results, 1, Len(results) - 1)),
                       results[Len(results)])

\* the loop that keeps the first result of each content hash
RECURSIVE Unique(_, _)
Unique(results, seen_content) ==
    IF results = <<>> THEN <<>>
    ELSE IF ContentHash(Head(results).content) \in seen_content
         THEN Unique(Tail(results), seen_content)
         ELSE <<Head(results)>>
              \o Unique(Tail(results),
                        seen_content \cup {ContentHash(Head(results).content)})

\* unique_results[:top_k] for top_k >= 0
FirstK(results, top_k) ==
    SubSeq(results, 1, IF Len(results) < top_k THEN Len(results) ELSE top_k)

\* a merge that answers only when both engines handed back hits
HybridMergeNeedsBoth(chroma_results, es_results, top_k) ==
    IF chroma_results.items = <<>> \/ es_results.items = <<>> THEN <<>>
    ELSE FirstK(Unique(SortedByScore(chroma_results.items \o es_results.items),
                       {}), top_k)

\* HybridRAGEngine.search after the gather
HybridMerge(chroma_results, es_results, top_k) ==
    LET all_results ==
            (IF chroma_results.is_list THEN chroma_results.items ELSE <<>>)
            \o (IF es_results.is_list THEN es_results.items ELSE <<>>)
    IN  FirstK(Unique(SortedByScore(all_results), {}), top_k)

NoRagSearch ==
    [pc |-> "idle", top_k |-> 0,
     chroma |-> [fails |-> FALSE, hits |-> <<>>],
     es |-> [fails |-> FALSE, hits |-> <<>>],
     raised |-> FALSE, results |-> <<>>]

\* search(query, top_k) has been called: each engine is asked for
\* top_k // 2 + 1 results and each store does what it does
InitRag ==
    \E top_k \in TopKs :
      \E c \in StoreOutcomes(top_k \div 2 + 1, "chromadb"),
         e \in StoreOutcomes(top_k \div 2 + 1, "elasticsearch") :
          rag_search = [NoRagSearch EXCEPT !.pc = "gathering", !.top_k = top_k,
                                           !.chroma = c, !.es = e]

\* HybridRAGEngine.search from the gather to its return
HybridSearch ==
    /\ rag_search.pc = "gathering"
    /\ rag_search' =
         [rag_search EXCEPT
            !.pc = "returned",
            !.results = HybridMerge(EngineSearch(rag_search.chroma),
                                    EngineSearch(rag_search.es),
                                    rag_search.top_k)]
    /\ UNCHANGED <<storeVars, chatVars, agentVars>>

NextRag == HybridSearch

\* ------------------------------------------------------------------------
\* Part B: DebateModerator
\* ------------------------------------------------------------------------

\* the experts of the workflow, in the order their nodes run and so in the
\* order their answers enter the agent_responses dict
Experts == {"gpt", "gemini", "clova"}

ExpertOrder(a) ==
    CASE a = "gpt" -> 1 [] a = "gemini" -> 2 [] a = "clova" -> 3

\* confidences of expert answers, in hundredths
Confidences == {70, 95}

\* the reply text of an expert
ExpertText(a) ==
    CASE a = "gpt" -> "gpt_text" [] a = "gemini" -> "gemini_text"
      [] a = "clova" -> "clova_text"

\* a key a dict does not have
Absent == "Absent"

AbsentNum == 0 - 1

\* a final_recommendation dict, by the keys the endpoints and the claims read
EmptyDict ==
    [is_none |-> FALSE, executive_summary |-> Absent,
     confidence_level |-> AbsentNum, immediate_actions |-> Absent,
     detailed_solution |-> Absent, fallback |-> FALSE,
     primary_response |-> Absent, raw_response |-> Absent,
     debate_rounds_count |-> AbsentNum,
     participating_agents |-> {}, error |-> Absent]

\* final_recommendation=None
NoneValue == [EmptyDict EXCEPT !.is_none = TRUE]

\* what the moderator's LLM client does on one messages.create call:
\*   api_error  the call raises, or the JSON it returns is not an object
\*   unparsable the text is not JSON
\*   json       a JSON object; malformed when a field the next phase joins
\*              into its prompt is not a list of strings
AnalysisOutcomes ==
    {[kind |-> "api_error", malformed |-> FALSE],
     [kind |-> "unparsable", malformed |-> FALSE],
     [kind |-> "json", malformed |-> FALSE],
     [kind |-> "json", malformed |-> TRUE]}

\* the lengths of the debate_rounds list in the LLM's debate JSON: empty or
\* not
DebateRoundCounts == {0, 1}

DebateOutcomes ==
    {[kind |-> "api_error", malformed |-> FALSE, rounds |-> AbsentNum],
     [kind |-> "unparsable", malformed |-> FALSE, rounds |-> AbsentNum]}
    \cup [kind : {"json"}, malformed : BOOLEAN, rounds : DebateRoundCounts]

\* the confidence_level the LLM writes into its JSON
LLMConfidences == {85}

SynthesisOutcomes ==
    {[kind |-> "api_error", executive_summary |-> Absent,
      confidence_level |-> AbsentNum],
     [kind |-> "unparsable", executive_summary |-> Absent,
      confidence_level |-> AbsentNum]}
    \cup [kind : {"json"}, executive_summary : {"llm_summary", Absent},
          confidence_level : LLMConfidences]

NotCalled == "not_called"

\* DebateModerator.analyze_response_differences: the report, by what the
\* later phases use of it
\* (first, an analysis whose error reports the debate cannot read)
analysis_error_report_unreadable(a) ==
    CASE a.kind = "json" -> [error |-> Absent, malformed |-> a.malformed]
      [] a.kind = "unparsable" -> [error |-> "parse", malformed |-> TRUE]
      [] a.kind = "api_error" -> [error |-> "api", malformed |-> TRUE]

analyze_response_differences(a) ==
    CASE a.kind = "json" -> [error |-> Absent, malformed |-> a.malformed]
      [] a.kind = "unparsable" -> [error |-> "parse", malformed |-> FALSE]
      [] a.kind = "api_error" -> [error |-> "api", malformed |-> FALSE]

\* DebateModerator.simulate_expert_debate: the debate record; rounds is
\* len(debate_rounds) when the record has that key
simulate_expert_debate(d) ==
    CASE d.kind = "json" ->
            [error |-> Absent, rounds |-> d.rounds, malformed |-> d.malformed]
      [] d.kind = "unparsable" ->
            [error |-> "parse", rounds |-> AbsentNum, malformed |-> FALSE]
      [] d.kind = "api_error" ->
            [error |-> "api", rounds |-> AbsentNum, malformed |-> FALSE]

\* the count with a debate record that has no debate_rounds key taken as one
\* round
DebateRoundsCountRawAsRound(debate_results) ==
    IF debate_results.rounds = AbsentNum THEN 1 ELSE debate_results.rounds

\* len(debate_results.get('debate_rounds', []))
DebateRoundsCount(debate_results) ==
    IF debate_results.rounds = AbsentNum THEN 0 ELSE debate_results.rounds

\* DebateModerator.synthesize_final_solution
synthesize_final_solution(agent_responses, debate_results, s) ==
    CASE s.kind = "json" ->
            [EmptyDict EXCEPT
               !.executive_summary = s.executive_summary,
               !.confidence_level = s.confidence_level,
               !.immediate_actions = "llm_actions",
               !.detailed_solution = "llm_solution",
               !.participating_agents = DOMAIN agent_responses,
               !.debate_rounds_count = DebateRoundsCount(debate_results)]
      [] s.kind = "unparsable" ->
            [EmptyDict EXCEPT !.error = "parse", !.raw_response = "raw_llm_text"]
      [] s.kind = "api_error" ->
            [EmptyDict EXCEPT !.error = "api"]

\* max(agent_responses.items(), key=get_confidence): the first of the
\* answers, in dict order, that no answer exceeds
BestAgent(agent_responses) ==
    CHOOSE a \in DOMAIN agent_responses :
        /\ \A b \in DOMAIN agent_responses :
              agent_responses[b].confidence <= agent_responses[a].confidence
        /\ \A b \in DOMAIN agent_responses :
              agent_responses[b].confidence = agent_responses[a].confidence
                 => ExpertOrder(a) <= ExpertOrder(b)

\* DebateModerator.handle_debate_failure: the fallback recommendation
handle_debate_failure(agent_responses) ==
    IF DOMAIN agent_responses # {}
    THEN [EmptyDict EXCEPT
            !.executive_summary = "debate_failed_notice",
            !.primary_response = agent_responses[BestAgent(agent_responses)].response,
            !.confidence_level = agent_responses[BestAgent(agent_responses)].confidence,
            !.fallback = TRUE]
    ELSE [EmptyDict EXCEPT !.error = "no_responses"]

\* DebateModerator.handle_single_agent_response: the body of the coroutine,
\* st the outcome of its one structuring call
handle_single_agent_response(agent_responses, st) ==
    IF Cardinality(DOMAIN agent_responses) = 1
    THEN LET a == CHOOSE x \in DOMAIN agent_responses : TRUE
         IN  IF st.kind = "json"
             THEN [EmptyDict EXCEPT
                     !.executive_summary = st.executive_summary,
                     !.confidence_level = st.confidence_level,
                     !.immediate_actions = "llm_actions",
                     !.detailed_solution = "llm_solution"]
             ELSE [EmptyDict EXCEPT
                     !.executive_summary = "single_expert_notice",
                     !.confidence_level = agent_responses[a].confidence,
                     !.immediate_actions = "review_expert_opinion",
                     !.detailed_solution = "expert_text_excerpt"]
    ELSE [EmptyDict EXCEPT
            !.executive_summary = "no_expert_responses",
            !.confidence_level = 0,
            !.immediate_actions = "empty",
            !.detailed_solution = "empty"]

(***************************************************************************)
(* DebateModerator.moderate_debate on a state with the given                *)
(* agent_responses, the LLM answering a, d, s to the three phases.  The     *)
(* result is what the node hands back:                                      *)
(*   is_state FALSE  the coroutine object that calling the async            *)
(*                   handle_single_agent_response without await yields;     *)
(*                   its body never runs                                    *)
(*   is_state TRUE   the updated state: its final_recommendation,           *)
(*                   debate_rounds ([debate_results]) and the marker added  *)
(*                   to processing_steps                                    *)
(* llm records which phases called the LLM and how each call ended,         *)
(* phases the phase methods moderate_debate called, in order.               *)
(***************************************************************************)
moderate_debate(agent_responses, a, d, s) ==
    LET differences == analyze_response_differences(a)
        debate_results == simulate_expert_debate(d)
        calls0 == [analysis |-> NotCalled, debate |-> NotCalled,
                   synthesis |-> NotCalled, structure |-> NotCalled]
    IN  IF Cardinality(DOMAIN agent_responses) < 2
        THEN [is_state |-> FALSE, final_recommendation |-> NoneValue,
              debate_rounds |-> <<>>, marker |-> Absent, llm |-> calls0,
              phases |-> <<>>]
        ELSE IF differences.malformed
        THEN \* building the debate prompt raises: except branch
             [is_state |-> TRUE,
              final_recommendation |-> handle_debate_failure(agent_responses),
              debate_rounds |-> <<>>, marker |-> "debate_fallback",
              llm |-> [calls0 EXCEPT !.analysis = a.kind],
              phases |-> <<"analysis", "debate">>]
        ELSE IF debate_results.malformed
        THEN \* building the synthesis prompt raises: except branch
             [is_state |-> TRUE,
              final_recommendation |-> handle_debate_failure(agent_responses),
              debate_rounds |-> <<>>, marker |-> "debate_fallback",
              llm |-> [calls0 EXCEPT !.analysis = a.kind, !.debate = d.kind],
              phases |-> <<"analysis", "debate", "synthesis">>]
        ELSE [is_state |-> TRUE,
              final_recommendation |->
                  synthesize_final_solution(agent_responses, debate_results, s),
              debate_rounds |-> <<debate_results>>, marker |-> "debate_completed",
              llm |-> [calls0 EXCEPT !.analysis = a.kind, !.debate = d.kind,
                                     !.synthesis = s.kind],
              phases |-> <<"analysis", "debate", "synthesis">>]

\* ------------------------------------------------------------------------
\* Part B: SessionManager (core/session_manager.py)
\* ------------------------------------------------------------------------

\* request.session_id when the client sends none
NoSessionId == 0

\* the id create_session hands out to the k-th chat request: a new one each
\* time
ManagedSessionId(k) == k

\* the session ids of the model
ChatSessionIds == 1..MaxChatRequests

\* SessionManager.create_session
create_session(ms, id) ==
    [s \in (DOMAIN ms) \cup {id} |->
        IF s = id THEN [conversation_count |-> 0, conversation_history |-> <<>>]
        ELSE ms[s]]

\* SessionManager.increment_conversation_count
increment_conversation_count(ms, session_id) ==
    IF session_id \in DOMAIN ms
    THEN [ms EXCEPT ![session_id].conversation_count = @ + 1]
    ELSE ms

\* an append that leaves the counter as it was
append_turn_keeps_count(ms, session_id, user_message, bot_response) ==
    IF session_id \in DOMAIN ms
    THEN [ms EXCEPT ![session_id].conversation_history = Append(@,
                [user_message |-> user_message, bot_response |-> bot_response])]
    ELSE ms

\* SessionManager.add_conversation_detailed: append_turn, the history gains
\* the turn and the counter goes up by one
append_turn(ms, session_id, user_message, bot_response) ==
    IF session_id \in DOMAIN ms
    THEN [ms EXCEPT ![session_id] =
            [conversation_count |-> @.conversation_count + 1,
             conversation_history |-> Append(@.conversation_history,
                [user_message |-> user_message, bot_response |-> bot_response])]]
    ELSE ms

\* SessionManager.add_conversation(session_id, user_message, bot_response),
\* after the add_conversation of the same signature in SimpleMemoryStore:
\* the history gains the turn and the counter becomes its length
session_add_conversation(ms, session_id, user_message, bot_response) ==
    IF session_id \in DOMAIN ms
    THEN [ms EXCEPT ![session_id] =
            [conversation_count |-> Len(@.conversation_history) + 1,
             conversation_history |-> Append(@.conversation_history,
                [user_message |-> user_message, bot_response |-> bot_response])]]
    ELSE ms

\* ------------------------------------------------------------------------
\* Part B: EnhancedWorkflowManager and the /chat, /chat/test endpoints
\* ------------------------------------------------------------------------

\* executive_summary += the notice of main.py that names failed_names; an
\* empty failed_names is the text with nothing appended
WithNotice(text, failed_names) == [text |-> text, notice |-> failed_names]

NoResponse ==
    [status |-> 0, conversation_count |-> AbsentNum, response_type |-> Absent,
     executive_summary |-> WithNotice(Absent, {}),
     confidence_level |-> AbsentNum,
     participating_agents |-> {}, debate_rounds |-> AbsentNum,
     failed_agents |-> {}]

NoCalls ==
    [analysis |-> NotCalled, debate |-> NotCalled, synthesis |-> NotCalled,
     structure |-> NotCalled]

IdleTurn ==
    [pc |-> "idle", endpoint |-> Absent, session_id |-> NoSessionId,
     user_message |-> Absent, pre_count |-> 0, pre_len |-> 0,
     \* AgentState
     selected_agents |-> {}, agent_responses |-> <<>>,
     debate_rounds |-> [is_set |-> FALSE, items |-> <<>>],
     final_recommendation |-> NoneValue, processing_steps |-> <<>>,
     failed_agents |-> {},
     \* what the run did
     called |-> {}, raised |-> {}, visited |-> <<>>, moderated |-> FALSE,
     \* the starts and ends of the analyze_and_respond calls, in order
     call_log |-> <<>>,
     \* analyze_and_respond calls made per expert, and the error_type of the
     \* AgentError that ended the run
     attempts |-> [a \in Experts |-> 0], raised_kind |-> Absent,
     at_moderator |-> {}, llm |-> NoCalls, phases |-> <<>>,
     \* WorkflowResult.success
     success |-> FALSE,
     \* what the request did to its session
     writes |-> 0, early_writes |-> 0, saved_reply |-> WithNotice(Absent, {}),
     response |-> NoResponse]

InitChat ==
    /\ managed = <<>>
    /\ turn = IdleTurn
    /\ metrics = [chat_requests |-> 0, workflow_success |-> 0,
                  workflow_errors |-> 0, api_errors |-> 0]
    /\ received = 0

Init == InitStore /\ InitChat /\ InitAgents /\ rag_search = NoRagSearch

Finished(status) ==
    [turn EXCEPT !.pc = "done", !.response = [NoResponse EXCEPT !.status = status]]

\* a request answered as if its session had been found
SessionNotFoundAnswersOk(endpoint) ==
    [IdleTurn EXCEPT !.pc = "done", !.endpoint = endpoint,
                     !.response = [NoResponse EXCEPT !.status = 200]]

\* get_session found nothing: HTTPException(status_code=404), re-raised by
\* the except HTTPException of the endpoint
SessionNotFound(endpoint) ==
    [IdleTurn EXCEPT !.pc = "done", !.endpoint = endpoint,
                     !.response = [NoResponse EXCEPT !.status = 404]]

\* chat_endpoint / chat_test_endpoint up to workflow_manager.execute:
\* get or create the session, build the AgentState.  The client sends no
\* session id, one handed out so far, or one never handed out (the id the
\* request itself would be given)
ChatStart(endpoint, sid, message) ==
    /\ turn.pc \in {"idle", "done"}
    /\ sid <= received + 1
    /\ received' = received + 1
    /\ UNCHANGED storeVars
    /\ UNCHANGED agentVars
    /\ UNCHANGED ragVars
    /\ IF sid # NoSessionId /\ sid \notin DOMAIN managed
       THEN /\ turn' = SessionNotFound(endpoint)
            /\ UNCHANGED <<managed, metrics>>
       ELSE LET session_id == IF sid = NoSessionId
                              THEN ManagedSessionId(received + 1)
                              ELSE sid
                ms == IF sid = NoSessionId
                      THEN create_session(managed, session_id)
                      ELSE managed
                session_data == ms[session_id]
            IN  /\ managed' = IF endpoint = "chat_test"
                              THEN increment_conversation_count(ms, session_id)
                              ELSE ms
                /\ metrics' = IF endpoint = "chat"
                              THEN [metrics EXCEPT !.chat_requests = @ + 1]
                              ELSE metrics
                /\ turn' = [IdleTurn EXCEPT
                              !.pc = "rag_classifier", !.endpoint = endpoint,
                              !.session_id = session_id,
                              !.user_message = message,
                              !.pre_count = session_data.conversation_count,
                              !.pre_len = Len(session_data.conversation_history),
                              !.writes = IF endpoint = "chat_test" THEN 1 ELSE 0,
                              !.early_writes = IF endpoint = "chat_test" THEN 1 ELSE 0]

\* node rag_classifier
ExecuteRagClassifier ==
    /\ turn.pc = "rag_classifier"
    /\ turn' = [turn EXCEPT !.pc = "agent_selector",
                            !.visited = Append(@, "rag_classifier")]
    /\ UNCHANGED <<managed, metrics, received>>
    /\ UNCHANGED storeVars
    /\ UNCHANGED agentVars
    /\ UNCHANGED ragVars

\* EnhancedWorkflowManager._route_to_agents
route_to_agents(selected_agents) ==
    IF Cardinality(selected_agents) = 1
    THEN CASE selected_agents = {"gpt"} -> "gpt_agent"
           [] selected_agents = {"gemini"} -> "gemini_agent"
           [] selected_agents = {"clova"} -> "clova_agent"
    ELSE "gpt_agent"

\* the routing with a _route_after_gemini that answers "debate" whatever the
\* selection holds, so that a selected clova is never run
route_after_gemini_always_debate(node, selected_agents) ==
    CASE node = "gpt_agent" ->
            IF "gemini" \in selected_agents THEN "gemini_agent" ELSE "debate_moderator"
      [] node = "gemini_agent" -> "debate_moderator"
      [] node = "clova_agent" -> "debate_moderator"

\* EnhancedWorkflowManager._route_after_gpt / _route_after_gemini /
\* _route_after_clova
route_after(node, selected_agents) ==
    CASE node = "gpt_agent" ->
            IF "gemini" \in selected_agents THEN "gemini_agent" ELSE "debate_moderator"
      [] node = "gemini_agent" ->
            IF "clova" \in selected_agents THEN "clova_agent" ELSE "debate_moderator"
      [] node = "clova_agent" -> "debate_moderator"

\* AgentSelector.select_agents: what it can put in selected_agents.  Its
\* code is not part of the repository's files; the workflow's routing takes
\* any list of experts, the empty one included
SelectableAgents == SUBSET Experts

\* node agent_selector and the conditional edge behind it; the node leaves
\* agent_responses an empty dict
ExecuteAgentSelector(selected_agents) ==
    /\ turn.pc = "agent_selector"
    /\ turn' = [turn EXCEPT !.pc = route_to_agents(selected_agents),
                            !.selected_agents = selected_agents,
                            !.agent_responses = <<>>,
                            !.visited = Append(@, "agent_selector")]
    /\ UNCHANGED <<managed, metrics, received>>
    /\ UNCHANGED storeVars
    /\ UNCHANGED agentVars
    /\ UNCHANGED ragVars

NodeOf(a) ==
    CASE a = "gpt" -> "gpt_agent" [] a = "gemini" -> "gemini_agent"
      [] a = "clova" -> "clova_agent"

\* the error kinds analyze_and_respond raises an AgentError with
ErrorKinds(a) ==
    IF a = "gpt" THEN {"RATE_LIMIT", "AUTH_ERROR", "ANALYSIS_ERROR"}
    ELSE {"ANALYSIS_ERROR"}

\* the error kinds an expert call is to be tried again for
TransientKinds == {"RATE_LIMIT", "TIMEOUT", "TRANSPORT_ERROR", "EMPTY_RESPONSE"}

\* execute's except branch: the run is over, success=False
WorkflowFailed(t) == [t EXCEPT !.pc = "returned", !.success = FALSE]

\* expert nodes that call their adapter without looking at selected_agents
ExecuteAgentUnchecked(a, confidence) ==
    /\ turn.pc = NodeOf(a)
    /\ turn' = [turn EXCEPT
                 !.pc = route_after(NodeOf(a), turn.selected_agents),
                 !.called = @ \cup {a},
                 !.attempts[a] = @ + 1,
                 !.visited = Append(@, NodeOf(a)),
                 !.call_log = @ \o <<[ev |-> "start", agent |-> a],
                                     [ev |-> "return", agent |-> a]>>,
                 !.agent_responses =
                     [x \in (DOMAIN turn.agent_responses) \cup {a} |->
                         IF x = a
                         THEN [response |-> ExpertText(a), confidence |-> confidence]
                         ELSE turn.agent_responses[x]]]
    /\ UNCHANGED <<managed, metrics, received>>
    /\ UNCHANGED storeVars
    /\ UNCHANGED agentVars
    /\ UNCHANGED ragVars

\* _execute_gpt_agent / _execute_gemini_agent / _execute_clova_agent when the
\* expert answers (or is not selected), and the conditional edge behind it
ExecuteAgent(a, confidence) ==
    /\ turn.pc = NodeOf(a)
    /\ turn' =
         IF a \in turn.selected_agents
         THEN [turn EXCEPT
                 !.pc = route_after(NodeOf(a), turn.selected_agents),
                 !.called = @ \cup {a},
                 !.attempts[a] = @ + 1,
                 !.visited = Append(@, NodeOf(a)),
                 !.call_log = @ \o <<[ev |-> "start", agent |-> a],
                                     [ev |-> "return", agent |-> a]>>,
                 !.agent_responses =
                     [x \in (DOMAIN turn.agent_responses) \cup {a} |->
                         IF x = a
                         THEN [response |-> ExpertText(a), confidence |-> confidence]
                         ELSE turn.agent_responses[x]]]
         ELSE [turn EXCEPT !.pc = route_after(NodeOf(a), turn.selected_agents),
                           !.visited = Append(@, NodeOf(a))]
    /\ UNCHANGED <<managed, metrics, received>>
    /\ UNCHANGED storeVars
    /\ UNCHANGED agentVars
    /\ UNCHANGED ragVars

\* the same nodes when analyze_and_respond raises AgentError: nothing catches
\* it before execute does
ExecuteAgentRaises(a, kind) ==
    /\ turn.pc = NodeOf(a)
    /\ a \in turn.selected_agents
    /\ turn' = WorkflowFailed([turn EXCEPT !.called = @ \cup {a},
                                           !.attempts[a] = @ + 1,
                                           !.raised = @ \cup {a},
                                           !.raised_kind = kind,
                                           !.call_log =
                                               @ \o <<[ev |-> "start", agent |-> a],
                                                      [ev |-> "raise", agent |-> a]>>,
                                           !.visited = Append(@, NodeOf(a))])
    /\ UNCHANGED <<managed, metrics, received>>
    /\ UNCHANGED storeVars
    /\ UNCHANGED agentVars
    /\ UNCHANGED ragVars

\* which phases of a moderation called the LLM, whatever the calls returned
CallsMade(llm) ==
    [p \in DOMAIN llm |-> IF llm[p] = NotCalled THEN NotCalled ELSE "called"]

\* _execute_debate_moderator, then END and the return of execute: the turn
\* after moderate_debate has handed back out, calls being what the turn keeps
\* of the LLM calls made
AfterModeration(out, calls) ==
    LET t == [turn EXCEPT !.moderated = TRUE,
                          !.at_moderator = DOMAIN turn.agent_responses,
                          !.visited = Append(@, "debate_moderator"),
                          !.llm = calls,
                          !.phases = out.phases]
    IN  IF out.is_state
        THEN [t EXCEPT
                !.pc = "returned", !.success = TRUE,
                !.final_recommendation = out.final_recommendation,
                !.debate_rounds =
                    IF out.marker = "debate_completed"
                    THEN [is_set |-> TRUE, items |-> out.debate_rounds]
                    ELSE @,
                !.processing_steps = Append(@, out.marker)]
        ELSE \* the graph cannot merge a coroutine object into the state
             WorkflowFailed(t)

\* node debate_moderator of a chat turn
ExecuteDebateModerator(a, d, s) ==
    LET out == moderate_debate(turn.agent_responses, a, d, s)
    IN  /\ turn.pc = "debate_moderator"
        /\ turn' = AfterModeration(out, CallsMade(out.llm))
        /\ UNCHANGED <<managed, metrics, received>>
        /\ UNCHANGED storeVars
        /\ UNCHANGED agentVars
        /\ UNCHANGED ragVars

\* final_recommendation.get('executive_summary', default)
ExecutiveSummary(final_recommendation, default) ==
    IF final_recommendation.executive_summary = Absent THEN default
    ELSE final_recommendation.executive_summary

\* final_recommendation.get('confidence_level', 0.5)
ConfidenceLevel(final_recommendation) ==
    IF final_recommendation.confidence_level = AbsentNum THEN 50
    ELSE final_recommendation.confidence_level

\* the reply the endpoints save with the turn: /chat appends the notice
\* before it saves, /chat/test saves before it appends
SavedSummary(endpoint, text, failed_names) ==
    IF endpoint = "chat" THEN WithNotice(text, failed_names)
    ELSE WithNotice(text, {})

\* the executive summary returned without the notice
ReturnedSummaryBare(text, failed_names) == WithNotice(text, {})

\* the executive_summary of the ChatResponse: the notice is appended when
\* failed_agents is not empty
ReturnedSummary(text, failed_names) == WithNotice(text, failed_names)

\* the endpoints after execute has returned, up to the await that saves the
\* turn
ChatSave ==
    /\ turn.pc = "returned"
    /\ IF ~ turn.success
       THEN \* /chat counts the error where it raises and again where the
            \* enclosing except catches its own HTTPException
            /\ turn' = Finished(500)
            /\ metrics' = IF turn.endpoint = "chat"
                          THEN [metrics EXCEPT !.workflow_errors = @ + 2]
                          ELSE metrics
            /\ UNCHANGED managed
       ELSE LET executive_summary ==
                    ExecutiveSummary(turn.final_recommendation,
                        IF turn.endpoint = "chat" THEN "cannot_generate"
                        ELSE "generation_failed")
                bot_response ==
                    SavedSummary(turn.endpoint, executive_summary,
                                 turn.failed_agents)
            IN  /\ managed' =
                     IF turn.endpoint = "chat"
                     THEN append_turn(managed, turn.session_id,
                                      turn.user_message, bot_response)
                     ELSE session_add_conversation(managed, turn.session_id,
                                      turn.user_message, bot_response)
                /\ metrics' = IF turn.endpoint = "chat"
                              THEN [metrics EXCEPT !.workflow_success = @ + 1]
                              ELSE metrics
                /\ turn' = [turn EXCEPT !.pc = "saved",
                                        !.saved_reply = bot_response,
                                        !.writes = @ + 1]
    /\ UNCHANGED received
    /\ UNCHANGED storeVars
    /\ UNCHANGED agentVars
    /\ UNCHANGED ragVars

\* the endpoints after the turn is saved: build the ChatResponse.  Where the
\* moderator did not set debate_rounds, the key holds what the nodes before
\* it left there: the None of the endpoint's AgentState (rounds_is_none) or
\* an empty list
ChatRespond(rounds_is_none) ==
    LET executive_summary ==
            ExecutiveSummary(turn.final_recommendation,
                IF turn.endpoint = "chat" THEN "cannot_generate"
                ELSE "generation_failed")
    IN  /\ turn.pc = "saved"
        /\ IF turn.endpoint = "chat" /\ turn.session_id \notin DOMAIN managed
           THEN \* the re-fetch finds no session
                /\ turn' = [turn EXCEPT !.pc = "done",
                              !.response = [NoResponse EXCEPT !.status = 500]]
                /\ UNCHANGED metrics
           ELSE IF ~ turn.debate_rounds.is_set /\ rounds_is_none
           THEN \* len(None) raises TypeError: the generic except answers 500
                /\ turn' = [turn EXCEPT !.pc = "done",
                              !.response = [NoResponse EXCEPT !.status = 500]]
                /\ metrics' = IF turn.endpoint = "chat"
                              THEN [metrics EXCEPT !.api_errors = @ + 1]
                              ELSE metrics
           ELSE /\ turn' = [turn EXCEPT !.pc = "done", !.response =
                     [status |-> 200,
                      conversation_count |->
                          IF turn.endpoint = "chat"
                          THEN managed[turn.session_id].conversation_count
                          ELSE turn.pre_count + 1,
                      response_type |->
                          IF turn.endpoint = "chat_test" THEN "test"
                          ELSE IF managed[turn.session_id].conversation_count = 1
                               THEN "first_question" ELSE "follow_up",
                      executive_summary |->
                          ReturnedSummary(executive_summary, turn.failed_agents),
                      confidence_level |-> ConfidenceLevel(turn.final_recommendation),
                      participating_agents |->
                          IF turn.endpoint = "chat"
                          THEN DOMAIN turn.agent_responses
                          ELSE turn.selected_agents,
                      debate_rounds |-> Len(turn.debate_rounds.items),
                      failed_agents |-> turn.failed_agents]]
                /\ UNCHANGED metrics
        /\ UNCHANGED <<managed, received>>
        /\ UNCHANGED storeVars
        /\ UNCHANGED agentVars
        /\ UNCHANGED ragVars

\* DELETE /session/{session_id} of api/main.py
DeleteManagedSession(session_id) ==
    /\ session_id \in DOMAIN managed
    /\ managed' = DictDel(managed, session_id)
    /\ UNCHANGED <<turn, metrics, received>>
    /\ UNCHANGED storeVars
    /\ UNCHANGED agentVars
    /\ UNCHANGED ragVars

ChatEndpoints == {"chat", "chat_test"}

\* the user_message of the k-th chat request
ChatMessage(k) == IF k = 1 THEN "m1" ELSE IF k = 2 THEN "m2" ELSE "m3"

NextChat ==
    \/ \E e \in ChatEndpoints, sid \in ChatSessionIds \cup {NoSessionId} :
          /\ received < MaxChatRequests
          /\ ChatStart(e, sid, ChatMessage(received + 1))
    \/ ExecuteRagClassifier
    \/ \E sel \in SelectableAgents : ExecuteAgentSelector(sel)
    \/ \E a \in Experts, c \in Confidences : ExecuteAgent(a, c)
    \/ \E a \in Experts : \E k \in ErrorKinds(a) : ExecuteAgentRaises(a, k)
    \/ \E a \in AnalysisOutcomes, d \in DebateOutcomes, s \in SynthesisOutcomes :
          ExecuteDebateModerator(a, d, s)
    \/ ChatSave
    \/ \E n \in BOOLEAN : ChatRespond(n)
    \/ \E sid \in ChatSessionIds : DeleteManagedSession(sid)

SpecStore == Init /\ [][NextStore]_vars

SpecChat == Init /\ [][NextChat]_vars

SpecFollowUp == Init /\ [][NextFollowUp]_vars

SpecAgents == Init /\ [][NextAgents]_vars

InitSearch == InitStore /\ InitChat /\ InitAgents /\ InitRag

SpecRag == InitSearch /\ [][NextRag]_vars

\* Settings.MAX_CONVERSATION_COUNT
MAX_CONVERSATION_COUNT == 50

\* one client sending the gpt endpoint one request after the other on the
\* default session, until the history is one turn past
\* MAX_CONVERSATION_COUNT
NextLongSession ==
    \/ AgentRequestStart(1, "gpt", None, "m1")
    \/ /\ StoredTurns(conversations) <= MAX_CONVERSATION_COUNT
       /\ AgentRequestReturn(1, "r1")
    \/ AgentRequestFail(1)

SpecLongSession == Init /\ [][NextLongSession]_vars

\* sequential chat turns on the sessions the turns create: two or three
\* experts selected, each answering or the first raising, the moderator's
\* three calls all answering or all failing
TurnSelections == {{"gpt", "gemini"}, Experts}

TurnModerations ==
    {m \in AnalysisOutcomes \X DebateOutcomes \X SynthesisOutcomes :
        \/ /\ \A i \in 1..3 : m[i].kind = "json"
           /\ ~ m[1].malformed /\ ~ m[2].malformed /\ m[2].rounds = 1
           /\ m[3].executive_summary = "llm_summary"
        \/ \A i \in 1..3 : m[i].kind = "api_error"}

NextTurns ==
    \/ \E e \in ChatEndpoints, sid \in 0..MaxSequentialTurns :
          /\ received < MaxSequentialTurns
          /\ ChatStart(e, sid, ChatMessage(received + 1))
    \/ ExecuteRagClassifier
    \/ \E sel \in TurnSelections : ExecuteAgentSelector(sel)
    \/ \E a \in Experts, c \in Confidences : ExecuteAgent(a, c)
    \/ \E a \in Experts : \E k \in ErrorKinds(a) : ExecuteAgentRaises(a, k)
    \/ \E m \in TurnModerations : ExecuteDebateModerator(m[1], m[2], m[3])
    \/ ChatSave
    \/ \E n \in BOOLEAN : ChatRespond(n)

SpecTurns == Init /\ [][NextTurns]_vars

\* ------------------------------------------------------------------------
\* DebateModerator.moderate_debate as a function of the state it is given
\* ------------------------------------------------------------------------

\* the agent_responses dicts a caller can hand to moderate_debate: any of the
\* experts, each with a confidence
AgentResponseDicts ==
    UNION {[S -> [response : {"text"}, confidence : Confidences]] :
              S \in SUBSET Experts}

\* the dict with each expert's own reply text
WithExpertText(r) ==
    [x \in DOMAIN r |-> [r[x] EXCEPT !.response = ExpertText(x)]]

InitModerator ==
    /\ InitStore
    /\ InitAgents
    /\ rag_search = NoRagSearch
    /\ managed = <<>>
    /\ metrics = [chat_requests |-> 0, workflow_success |-> 0,
                  workflow_errors |-> 0, api_errors |-> 0]
    /\ received = 0
    /\ \E r \in AgentResponseDicts :
          turn = [IdleTurn EXCEPT !.pc = "debate_moderator",
                                  !.selected_agents = DOMAIN r,
                                  !.agent_responses = WithExpertText(r)]

\* moderate_debate called on the state, the LLM answering a, d, s; the turn
\* keeps how each call ended
ModerateDebate(a, d, s) ==
    LET out == moderate_debate(turn.agent_responses, a, d, s)
    IN  /\ turn.pc = "debate_moderator"
        /\ turn' = AfterModeration(out, out.llm)
        /\ UNCHANGED <<managed, metrics, received>>
        /\ UNCHANGED storeVars
        /\ UNCHANGED agentVars
        /\ UNCHANGED ragVars

NextModerator ==
    \E a \in AnalysisOutcomes, d \in DebateOutcomes, s \in SynthesisOutcomes :
        ModerateDebate(a, d, s)

SpecModerator == InitModerator /\ [][NextModerator]_vars

\* ------------------------------------------------------------------------
\* The endpoints from the return of execute on, as a function of the result
\* state execute hands them
\* ------------------------------------------------------------------------

\* final_recommendation values of a successful run: a parsed synthesis with
\* and without an executive_summary, and the fallback recommendation
ResultRecommendations(agent_responses) ==
    {synthesize_final_solution(agent_responses,
                               [error |-> Absent, rounds |-> 1, malformed |-> FALSE],
                               [kind |-> "json", executive_summary |-> x,
                                confidence_level |-> 85]) :
        x \in {"llm_summary", Absent}}
    \cup {handle_debate_failure(agent_responses)}

\* a turn on a new session whose workflow run has just returned success=True
\* with the answers of responders and the failure records of failed_names
ReturnedTurn(endpoint, responders, failed_names, final_recommendation) ==
    [IdleTurn EXCEPT
        !.pc = "returned", !.endpoint = endpoint,
        !.session_id = ManagedSessionId(1), !.user_message = ChatMessage(1),
        !.selected_agents = responders \cup failed_names,
        !.agent_responses =
            [a \in responders |->
                [response |-> ExpertText(a), confidence |-> 70]],
        !.failed_agents = failed_names,
        !.called = responders \cup failed_names,
        !.attempts = [a \in Experts |->
                         IF a \in responders \cup failed_names THEN 1 ELSE 0],
        !.visited = <<"rag_classifier", "agent_selector", "debate_moderator">>,
        !.moderated = TRUE, !.at_moderator = responders,
        !.debate_rounds =
            [is_set |-> TRUE,
             items |-> <<[error |-> Absent, rounds |-> 1, malformed |-> FALSE]>>],
        !.final_recommendation = final_recommendation,
        !.success = TRUE,
        !.writes = IF endpoint = "chat_test" THEN 1 ELSE 0,
        !.early_writes = IF endpoint = "chat_test" THEN 1 ELSE 0]

InitAnswer ==
    /\ InitStore
    /\ InitAgents
    /\ rag_search = NoRagSearch
    /\ received = 1
    /\ \E endpoint \in ChatEndpoints, failed_names \in SUBSET Experts :
         \E responders \in (SUBSET (Experts \ failed_names)) \ {{}} :
         \E fr \in ResultRecommendations(
                      [a \in responders |->
                          [response |-> ExpertText(a), confidence |-> 70]]) :
            /\ turn = ReturnedTurn(endpoint, responders, failed_names, fr)
            /\ managed =
                 IF endpoint = "chat_test"
                 THEN increment_conversation_count(
                          create_session(<<>>, ManagedSessionId(1)),
                          ManagedSessionId(1))
                 ELSE create_session(<<>>, ManagedSessionId(1))
            /\ metrics = [chat_requests |-> IF endpoint = "chat" THEN 1 ELSE 0,
                          workflow_success |-> 0, workflow_errors |-> 0,
                          api_errors |-> 0]

NextAnswer ==
    \/ ChatSave
    \/ \E n \in BOOLEAN : ChatRespond(n)

SpecAnswer == InitAnswer /\ [][NextAnswer]_vars

\* ------------------------------------------------------------------------
\* Claims about the store (SpecStore)
\* ------------------------------------------------------------------------

\* the history the store holds for an id: get_conversation_history
StoredHistory(session_id) ==
    IF session_id \in DOMAIN conversations THEN conversations[session_id] ELSE <<>>

\* C1: every session document's conversation_count equals the length of the
\* history stored for its id, after every completed store operation and for
\* every interleaving of the endpoints' operations, a delete that lands while
\* a turn on the same id is in flight included.
C1_CountEqualsHistory ==
    \A s \in DOMAIN sessions :
        sessions[s].conversation_count = Len(StoredHistory(s))

\* C3: two overlapping turn requests on one session that both read it at the
\* same conversation count never both commit: one of them is rejected.
C3_OverlappingTurnsNeverBothCommit ==
    \A r \in Reqs : \A q \in req[r].overlap :
        ~ (/\ req[r].pc = "done" /\ req[r].status = 200
           /\ req[q].pc = "done" /\ req[q].status = 200)

\* ------------------------------------------------------------------------
\* Claims about the chat endpoints and the workflow (SpecChat)
\* ------------------------------------------------------------------------

\* the workflow of the turn is running: execute has been called and has not
\* returned
InWorkflow ==
    turn.pc \in {"rag_classifier", "agent_selector", "gpt_agent", "gemini_agent",
                 "clova_agent", "debate_moderator"}

\* the turn went through execute and the endpoint has answered it
TurnAnswered == turn.pc = "done" /\ turn.visited # <<>>

\* C2: on /chat and /chat/test the session is not mutated for a turn (no
\* counter increment, no conversation added) before the workflow has produced
\* the turn's final_recommendation, and when workflow execution fails the
\* session's conversation counter is what it was before the request.
C2_SessionMutatedOnlyAfterRecommendation ==
    /\ InWorkflow => turn.writes = 0
    /\ (TurnAnswered /\ ~ turn.success /\ turn.session_id \in DOMAIN managed)
          => managed[turn.session_id].conversation_count = turn.pre_count

\* C4: when a selected expert raises an AgentError, execute still runs the
\* other selected experts and the moderator and returns success=True; the
\* failed expert is in failed_agents and not in agent_responses.
C4_ExpertFailureDoesNotAbortRun ==
    (turn.pc \in {"returned", "saved", "done"} /\ turn.raised # {}) =>
        /\ turn.success
        /\ turn.moderated
        /\ turn.selected_agents \subseteq turn.called
        /\ turn.raised \subseteq turn.failed_agents
        /\ turn.raised \cap DOMAIN turn.agent_responses = {}

\* C5: when every selected expert fails in a /chat turn, the caller gets a
\* Recommendation with confidence_level 0.0 and not an HTTP error, and the
\* turn leaves the session's conversation counter and history as they were.
C5_AllExpertsFailedGivesDiagnostic ==
    (/\ TurnAnswered /\ turn.endpoint = "chat"
     /\ turn.selected_agents # {} /\ turn.raised = turn.selected_agents) =>
        /\ turn.response.status = 200
        /\ turn.response.confidence_level = 0
        /\ turn.session_id \in DOMAIN managed =>
              /\ managed[turn.session_id].conversation_count = turn.pre_count
              /\ Len(managed[turn.session_id].conversation_history) = turn.pre_len

\* C7: with exactly one expert response at the moderator, no difference
\* analysis and no debate simulation call is made, and the turn is answered
\* with a debate round count of 0.
C7_SingleExpertPath ==
    (turn.moderated /\ Cardinality(turn.at_moderator) = 1) =>
        /\ turn.llm.analysis = NotCalled
        /\ turn.llm.debate = NotCalled
        /\ turn.llm.synthesis = NotCalled
        /\ turn.pc = "done" =>
              /\ turn.response.status = 200
              /\ turn.response.debate_rounds = 0

\* C10: for every turn answered with a Recommendation, on /chat and on
\* /chat/test and for every selection, the participants reported are exactly
\* the experts whose responses are in agent_responses, which are the experts
\* that were called and did not fail; the participants the Recommendation
\* itself names, where it names any, are the same set.
C10_ParticipantsAreResponders ==
    (turn.pc = "done" /\ turn.response.status = 200) =>
        /\ turn.response.participating_agents = DOMAIN turn.agent_responses
        /\ DOMAIN turn.agent_responses = turn.called \ turn.raised
        /\ turn.final_recommendation.debate_rounds_count # AbsentNum =>
              turn.final_recommendation.participating_agents =
                  DOMAIN turn.agent_responses

\* a /chat/test turn answered with a Recommendation whose selection skipped
\* the first expert node
C10_Witness ==
    /\ turn.pc = "done" /\ turn.endpoint = "chat_test"
    /\ turn.response.status = 200
    /\ turn.selected_agents = {"gemini", "clova"}
    /\ turn.response.participating_agents = {"gemini", "clova"}

\* ------------------------------------------------------------------------
\* Claims about the moderator (SpecModerator)
\* ------------------------------------------------------------------------

\* C6: with no expert response at the moderator, the final_recommendation has
\* confidence_level 0.0, the fixed executive summary and empty
\* immediate_actions and detailed_solution, and the LLM is never called.
C6_NoResponsesFixedRecommendation ==
    (turn.moderated /\ turn.at_moderator = {}) =>
        /\ turn.final_recommendation.confidence_level = 0
        /\ turn.final_recommendation.executive_summary = "no_expert_responses"
        /\ turn.final_recommendation.immediate_actions = "empty"
        /\ turn.final_recommendation.detailed_solution = "empty"
        /\ turn.llm = NoCalls

\* C8: with two or more expert responses the full debate path is taken (the
\* analysis call is made, no structuring call) and the Recommendation's
\* debate_rounds_count is at least 1, whatever the LLM returns.
C8_FullDebateAtLeastOneRound ==
    (turn.moderated /\ Cardinality(turn.at_moderator) >= 2) =>
        /\ turn.llm.analysis # NotCalled
        /\ turn.llm.structure = NotCalled
        /\ turn.final_recommendation.debate_rounds_count >= 1

\* C8, as the code has it: with two or more expert responses the full debate
\* path is taken (the analysis call is made, no structuring call); when the
\* synthesis reply parses, the Recommendation's debate_rounds_count is the
\* number of rounds in the debate record the state keeps in debate_rounds,
\* which is at least 1 exactly when the debate reply parsed and held a round,
\* and 0 when the debate reply was unparsable, the call failed or the
\* transcript was empty.
C8_DebateRoundsCountIsTranscriptLength ==
    (turn.moderated /\ Cardinality(turn.at_moderator) >= 2) =>
        /\ turn.llm.analysis # NotCalled
        /\ turn.llm.structure = NotCalled
        /\ turn.llm.synthesis = "json" =>
              /\ turn.debate_rounds.is_set
              /\ Len(turn.debate_rounds.items) = 1
              /\ turn.final_recommendation.debate_rounds_count >= 0
              /\ turn.final_recommendation.debate_rounds_count >= 1 <=>
                    /\ turn.llm.debate = "json"
                    /\ turn.debate_rounds.items[1].rounds >= 1
              /\ turn.final_recommendation.debate_rounds_count >= 1 =>
                    turn.final_recommendation.debate_rounds_count =
                        turn.debate_rounds.items[1].rounds

\* three expert responses, a parsed debate with a round, a parsed synthesis
C8_Witness ==
    /\ turn.moderated /\ Cardinality(turn.at_moderator) = 3
    /\ turn.llm.debate = "json" /\ turn.llm.synthesis = "json"
    /\ turn.final_recommendation.debate_rounds_count = 1

\* C9: when the LLM fails in the analysis, the debate and the synthesis call
\* while two or more expert responses exist, the final_recommendation has
\* fallback = true and its executive summary is the response text of the
\* expert with the highest confidence.
C9_ModeratorFailureFallsBack ==
    (/\ turn.moderated /\ Cardinality(turn.at_moderator) >= 2
     /\ turn.llm.analysis = "api_error" /\ turn.llm.debate = "api_error"
     /\ turn.llm.synthesis = "api_error") =>
        /\ turn.final_recommendation.fallback
        /\ turn.final_recommendation.executive_summary =
              turn.agent_responses[BestAgent(turn.agent_responses)].response

SavesTurn(r) == req[r].pc = "calling" /\ req'[r].pc = "done" /\ req'[r].status = 200

\* the number of turns the store holds under session_id
HistoryLen(cs, session_id) ==
    IF session_id \in DOMAIN cs THEN Len(cs[session_id]) ELSE 0

\* C14: add_conversation is atomic: when it returns, either the history
\* gained the turn and the session's conversation_count was updated to
\* match, or neither changed; when it returns False the history is
\* unchanged.
C14_AddConversationAtomic ==
    [][\A r \in Reqs :
          SavesTurn(r) =>
              LET s == req[r].session_id
                  both ==
                      /\ HistoryLen(conversations', s) =
                            HistoryLen(conversations, s) + 1
                      /\ s \in DOMAIN sessions'
                      /\ sessions'[s].conversation_count =
                            HistoryLen(conversations', s)
                  neither ==
                      /\ conversations' = conversations
                      /\ sessions' = sessions
              IN  /\ both \/ neither
                  /\ ~ add_conversation_returns(sessions, conversations, s) =>
                        conversations' = conversations]_vars

\* C15: add_conversation on an id that has no session document reports
\* not-found and records nothing: no history entry is created for that id
\* and the store is unchanged.
C15_AddWithoutSessionRecordsNothing ==
    [][\A r \in Reqs :
          (SavesTurn(r) /\ req[r].session_id \notin DOMAIN sessions) =>
              /\ ~ add_conversation_returns(sessions, conversations,
                                            req[r].session_id)
              /\ conversations' = conversations
              /\ sessions' = sessions]_vars

\* C16: delete_session on an id that is not in the store reports not-found,
\* which DELETE /api/session/{session_id} answers with 404, and leaves the
\* store unchanged; only deleting an existing session reports ok.
C16_DeleteUnknownIsNotFound ==
    (cleared.status # 0 /\ ~ cleared.found) => cleared.status = 404

\* C17: a /chat request whose session_id is not in the store is answered
\* with the session-not-found error (404), and it creates no session,
\* executes no workflow node and appends no turn.
C17_UnknownSessionIsNotFound ==
    [][\A sid \in ChatSessionIds :
          (/\ sid \notin DOMAIN managed
           /\ ChatStart("chat", sid, ChatMessage(received + 1))) =>
              /\ turn'.pc = "done" /\ turn'.response.status = 404
              /\ managed' = managed
              /\ turn'.visited = <<>> /\ turn'.called = {}
              /\ ~ turn'.moderated
              /\ turn'.writes = 0
              /\ metrics' = metrics]_vars

\* a /chat request with an id the store does not hold has been answered 404
\* and the store holds no session
C17_Witness ==
    /\ turn.pc = "done" /\ turn.endpoint = "chat"
    /\ turn.response.status = 404
    /\ received = 1 /\ managed = <<>>
    /\ turn.visited = <<>>

\* C18: an expert call that fails with a transient error kind (RATE_LIMIT,
\* TIMEOUT, TRANSPORT_ERROR, EMPTY_RESPONSE) is retried exactly once within
\* the turn before the expert is recorded as failed: once the turn has gone
\* on from the failure, the expert has been called twice.
C18_TransientErrorRetriedOnce ==
    \A a \in turn.raised :
        turn.raised_kind \in TransientKinds => turn.attempts[a] = 2

\* C19: when the Clova provider answers with HTTP 200 but no message text,
\* ClovaAgent.analyze_and_respond fails with an AgentError whose error kind,
\* as seen by the caller, is EMPTY_RESPONSE.
C19_ClovaEmptyResponseKind ==
    (/\ expert_call.agent = "clova" /\ expert_call.answer = "http_200"
     /\ expert_call.response_length = 0) =>
        /\ expert_call.raised
        /\ expert_call.error_kind = "EMPTY_RESPONSE"

\* C20: for every response length and every token-usage value,
\* GPTAgent.calculate_confidence and ClovaAgent.calculate_confidence return a
\* confidence in [0.3, 0.95], here in hundredths.
C20_ConfidenceInRange ==
    (expert_call.agent \in {"gpt", "clova"} /\ ~ expert_call.raised) =>
        (30 <= expert_call.confidence /\ expert_call.confidence <= 95)

\* GPT has answered at length with many tokens and the sum of the base and
\* both bonuses met the ceiling
C20_WitnessCeiling ==
    /\ expert_call.agent = "gpt" /\ ~ expert_call.raised
    /\ expert_call.response_length > 800
    /\ expert_call.token_usage.completion_tokens > 1000
    /\ expert_call.confidence = 95

\* C21: for every turn in which at least one expert response is present, the
\* moderator leaves a final_recommendation whose confidence_level, as the
\* endpoint reads it, is greater than 0, on every moderator path.
C21_ConfidencePositive ==
    (turn.moderated /\ Cardinality(turn.at_moderator) >= 1) =>
        /\ ~ turn.final_recommendation.is_none
        /\ ConfidenceLevel(turn.final_recommendation) > 0

\* C22: a session's stored history never holds more than
\* MAX_CONVERSATION_COUNT turns.
C22_HistoryNeverExceedsMax ==
    \A s \in DOMAIN conversations :
        Len(conversations[s]) <= MAX_CONVERSATION_COUNT

\* C23: every chat-turn response carries a response_type in
\* {first_question, follow_up}: first_question exactly when the session's
\* conversation_count is 1 after the turn, follow_up otherwise, on /chat and
\* on /chat/test.
C23_ResponseTypeByCount ==
    (turn.pc = "done" /\ turn.response.status = 200) =>
        /\ turn.response.response_type \in {"first_question", "follow_up"}
        /\ turn.response.response_type = "first_question" <=>
              turn.response.conversation_count = 1

\* the hits the two stores answered the search with
StoreHitsOf(search) ==
    {search.chroma.hits[i] : i \in 1..Len(search.chroma.hits)}
    \cup {search.es.hits[i] : i \in 1..Len(search.es.hits)}

\* C24: HybridRAGEngine.search(query, top_k) returns at most top_k results,
\* in non-increasing score order, no two with the same content; of a content
\* both stores returned, the copy kept is the one with the higher score.
C24_SearchTopKSortedUnique ==
    rag_search.pc = "returned" =>
        LET r == rag_search.results
        IN  /\ Len(r) <= rag_search.top_k
            /\ \A i, j \in 1..Len(r) :
                  i < j => (r[i].score >= r[j].score /\ r[i].content # r[j].content)
            /\ \A i \in 1..Len(r) :
                  /\ r[i] \in StoreHitsOf(rag_search)
                  /\ \A h \in StoreHitsOf(rag_search) :
                        h.content = r[i].content => r[i].score >= h.score

\* both stores returned doc_a, Elasticsearch with the higher score; that
\* copy is in the results, and a third document was cut off by top_k
C24_Witness ==
    /\ rag_search.pc = "returned" /\ rag_search.top_k = 2
    /\ rag_search.chroma.hits =
          <<[content |-> "doc_b", score |-> 2, source |-> "chromadb"],
            [content |-> "doc_a", score |-> 1, source |-> "chromadb"]>>
    /\ rag_search.es.hits =
          <<[content |-> "doc_a", score |-> 2, source |-> "elasticsearch"],
            [content |-> "doc_c", score |-> 1, source |-> "elasticsearch"]>>
    /\ rag_search.results =
          <<[content |-> "doc_b", score |-> 2, source |-> "chromadb"],
            [content |-> "doc_a", score |-> 2, source |-> "elasticsearch"]>>

\* C25: if exactly one of the two stores fails during search, the other
\* store's results are still returned; if both fail the result is an empty
\* list; in no case does search raise to its caller.
C25_StoreFailureTolerated ==
    rag_search.pc = "returned" =>
        /\ ~ rag_search.raised
        /\ (rag_search.chroma.fails /\ ~ rag_search.es.fails) =>
              rag_search.results = FirstK(rag_search.es.hits, rag_search.top_k)
        /\ (rag_search.es.fails /\ ~ rag_search.chroma.fails) =>
              rag_search.results = FirstK(rag_search.chroma.hits, rag_search.top_k)
        /\ (rag_search.chroma.fails /\ rag_search.es.fails) =>
              rag_search.results = <<>>

\* Chroma failed and the two hits of Elasticsearch are the results
C25_Witness ==
    /\ rag_search.pc = "returned" /\ rag_search.chroma.fails
    /\ ~ rag_search.es.fails /\ Len(rag_search.es.hits) = 2
    /\ rag_search.top_k = 3
    /\ rag_search.results = rag_search.es.hits

\* C26: for every non-empty selection of experts from {gpt, gemini, clova},
\* each selected expert's adapter call has been made and has returned
\* before the debate_moderator node starts.
C26_SelectedExpertsReturnBeforeModerator ==
    (turn.pc = "debate_moderator" /\ turn.selected_agents # {}) =>
        \A a \in turn.selected_agents :
            /\ a \in turn.called
            /\ a \notin turn.raised
            /\ a \in DOMAIN turn.agent_responses

\* two calls of different experts overlap in the log: the second starts
\* while the first has neither returned nor raised
Overlap(log) ==
    \E i, j \in 1..Len(log) :
        /\ i < j
        /\ log[i].ev = "start" /\ log[j].ev = "start"
        /\ log[i].agent # log[j].agent
        /\ \A k \in i..j : log[k].agent = log[i].agent => log[k].ev = "start"

\* C27: when two or three experts are selected, their adapter calls are
\* launched in parallel: once a second selected expert's call has started,
\* it started while the first selected expert's call had not yet returned.
C27_ExpertCallsOverlap ==
    Cardinality(turn.called \cap turn.selected_agents) >= 2 =>
        Overlap(turn.call_log)

\* no reachable state has two expert calls in progress at once
NoOverlapEver == ~ Overlap(turn.call_log)

\* the nodes of a run are visited at most once each, rag_classifier first,
\* and a run in which no expert call raised has gone through
\* debate_moderator when execute returns
RunStructure ==
    /\ \A i, j \in 1..Len(turn.visited) :
          i # j => turn.visited[i] # turn.visited[j]
    /\ turn.visited # <<>> => turn.visited[1] = "rag_classifier"
    /\ (turn.pc = "returned" /\ turn.raised = {}) =>
          turn.visited[Len(turn.visited)] = "debate_moderator"

\* C28: every workflow run started by execute, for any selection of experts
\* (the empty one included), visits each node at most once, starts at
\* rag_classifier, passes through debate_moderator and then terminates at
\* END, provided every node call returns.
C28_RunReachesEndOnce ==
    /\ RunStructure
    /\ (turn.pc = "returned" /\ turn.raised = {}) => turn.success

AllPhases == <<"analysis", "debate", "synthesis">>

\* C29 as stated: with two or more expert responses, moderate_debate runs
\* difference analysis, then debate simulation, then synthesis, each exactly
\* once and in that order, whatever the phases return.
C29_AllPhasesAlwaysRun ==
    (turn.moderated /\ Cardinality(turn.at_moderator) >= 2) =>
        turn.phases = AllPhases

\* C29: with two or more expert responses, moderate_debate runs difference
\* analysis and then debate simulation, once each, and then synthesis once,
\* unless the debate simulation raised on an analysis report of the wrong
\* shape, in which case the fallback recommendation is returned instead; a
\* parse failure or API failure of the analysis yields a report on which the
\* debate and the synthesis still run.
C29_PhasesInOrder ==
    (turn.moderated /\ Cardinality(turn.at_moderator) >= 2) =>
        /\ turn.phases \in {AllPhases, SubSeq(AllPhases, 1, 2)}
        /\ turn.phases # AllPhases =>
              /\ turn.llm.analysis = "json"
              /\ turn.llm.debate = NotCalled /\ turn.llm.synthesis = NotCalled
              /\ turn.final_recommendation.fallback
        /\ turn.llm.analysis \in {"unparsable", "api_error"} =>
              /\ turn.phases = AllPhases
              /\ turn.llm.debate # NotCalled

\* the analysis call failed, and the debate and the synthesis calls were
\* made all the same
C29_Witness ==
    /\ turn.moderated /\ Cardinality(turn.at_moderator) >= 2
    /\ turn.llm.analysis = "api_error"
    /\ turn.phases = AllPhases
    /\ turn.llm.debate = "json" /\ turn.llm.synthesis = "json"

\* C30: if the synthesis phase's output cannot be parsed as JSON, the
\* final_recommendation still has an executive summary, equal to the
\* moderator's raw text, and that raw text is the executive summary
\* returned to the caller.
C30_UnparsedSynthesisSummaryIsRawText ==
    (turn.moderated /\ turn.final_recommendation.raw_response # Absent) =>
        /\ turn.final_recommendation.executive_summary
              = turn.final_recommendation.raw_response
        /\ (turn.pc = "done" /\ turn.response.status = 200) =>
              turn.response.executive_summary.text
                  = turn.final_recommendation.raw_response

\* C31: on the single-expert path the final_recommendation's
\* confidence_level equals that expert's confidence, both when the
\* structuring call to the moderator LLM succeeds and when it fails.
C31_SingleExpertConfidence ==
    (turn.moderated /\ Cardinality(turn.at_moderator) = 1) =>
        /\ ~ turn.final_recommendation.is_none
        /\ \A a \in turn.at_moderator :
              turn.final_recommendation.confidence_level
                  = turn.agent_responses[a].confidence

\* WorkflowResult.steps_completed as execute fills it: the result state's
\* processing_steps on success, workflow_state.completed_steps (never
\* written, so empty) in the except branch
steps_completed(t) == IF t.success THEN t.processing_steps ELSE <<>>

NodeNames ==
    {"rag_classifier", "agent_selector", "gpt_agent", "gemini_agent",
     "clova_agent", "debate_moderator"}

IsNodeName(step) == step \in NodeNames

\* C32: every node the engine executes in a turn (classifier, selector, each
\* expert node that runs, moderator) is recorded by name in the turn's
\* steps-completed list, in execution order, so that
\* WorkflowResult.steps_completed names every node that ran.
C32_StepsCompletedNamesNodes ==
    turn.pc = "returned" =>
        SelectSeq(steps_completed(turn), IsNodeName) = turn.visited

\* C33: the conversation_length returned by process_agent_request equals the
\* number of turns stored in that session's history once the turn has been
\* saved: k on the k-th successful sequential turn of a session.
C33_ConversationLengthIsHistoryLength ==
    [][\A r \in Reqs :
          SavesTurn(r) =>
              req'[r].conversation_length
                  = Len(conversations'[req'[r].session_id])]_vars

\* C34: every /chat request that reaches workflow execution is counted
\* exactly once in exactly one outcome counter: at quiescence chat_requests
\* = workflow_success + workflow_errors, and a single failed workflow run
\* raises workflow_errors by exactly 1.
C34_OutcomeCountedOnce ==
    turn.pc \in {"idle", "done"} =>
        metrics.chat_requests
            = metrics.workflow_success + metrics.workflow_errors

\* C35: within one workflow run, an expert that is not in selected_agents
\* never has its adapter called, and no expert's adapter is called more
\* than once.
C35_OnlySelectedCalledOnce ==
    /\ turn.called \subseteq turn.selected_agents
    /\ \A a \in Experts :
          /\ turn.attempts[a] <= 1
          /\ a \notin turn.selected_agents => turn.attempts[a] = 0
          /\ Cardinality({i \in 1..Len(turn.call_log) :
                            /\ turn.call_log[i].ev = "start"
                            /\ turn.call_log[i].agent = a}) <= 1

\* gemini and clova are selected: the run passed through gpt_agent without
\* calling gpt and called the two others once each
C35_Witness ==
    /\ turn.selected_agents = {"gemini", "clova"}
    /\ turn.visited = <<"rag_classifier", "agent_selector", "gpt_agent",
                        "gemini_agent", "clova_agent">>
    /\ turn.called = {"gemini", "clova"}
    /\ turn.attempts = [a \in Experts |-> IF a = "gpt" THEN 0 ELSE 1]

\* WorkflowResult.error_message as execute fills it: None on the return of
\* the try, str(e) in the except branch
error_message(t) == IF t.success THEN Absent ELSE "str_e"

\* whenever a node raised, execute returned success = False with an
\* error_message
ExecuteCatches ==
    (turn.pc = "returned" /\ turn.raised # {}) =>
        (~ turn.success /\ error_message(turn) # Absent)

\* C36: execute never propagates an exception: whenever any node raises it
\* returns a WorkflowResult with success = False and a non-null
\* error_message, and whenever no node raises it returns success = True
\* with error_message null.
C36_ExecuteResultMatchesNodes ==
    /\ ExecuteCatches
    /\ (turn.pc = "returned" /\ turn.raised = {}) =>
          (turn.success /\ error_message(turn) = Absent)

\* request r enters process_agent_request and reaches its agent call
StartsTurn(r) == req[r].pc # "calling" /\ req'[r].pc = "calling"

\* the agent call of request r raises and the request is answered 500
FailsTurn(r) ==
    req[r].pc = "calling" /\ req'[r].pc = "done" /\ req'[r].status = 500

\* C37: if the expert call fails inside process_agent_request, no turn is
\* appended to that session's history and its conversation_count is
\* unchanged; a later successful request on the same session sees exactly
\* the turns that were committed before the failure.
C37_FailedCallCommitsNothing ==
    [][\A r \in Reqs :
          /\ FailsTurn(r) =>
                (conversations' = conversations /\ sessions' = sessions)
          /\ StartsTurn(r) =>
                /\ conversations' = conversations
                /\ \A s \in DOMAIN sessions : sessions'[s] = sessions[s]
                /\ \A s \in (DOMAIN sessions') \ DOMAIN sessions :
                      sessions'[s].conversation_count = 0
                /\ HandedHistory(conversations', req'[r].session_id,
                                 req'[r].conversation_history)
                      = StoredHistory(req'[r].session_id)]_vars

\* a request on a session holding one committed turn has failed: the
\* history still holds that turn and the count is still 1
C37_Witness ==
    /\ req[1].pc = "done" /\ req[1].status = 500
    /\ req[1].read_len = 1
    /\ req[1].session_id \in DOMAIN conversations
    /\ Len(conversations[req[1].session_id]) = 1
    /\ sessions[req[1].session_id].conversation_count = 1

\* the entries of every id other than session_id are the same in the dicts
\* d and e
SameElsewhere(d, e, session_id) ==
    /\ (DOMAIN d) \ {session_id} = (DOMAIN e) \ {session_id}
    /\ \A s \in (DOMAIN d) \ {session_id} : d[s] = e[s]

\* C38: add_conversation(id, ...) and delete_session(id) change only the
\* entries of id: every other session's document and history are
\* unchanged, and after add_conversation the turns already in id's history
\* are unchanged and form a prefix of the new history.
C38_OnlyOwnEntriesChange ==
    \A id \in SessionIds \cup {DefaultSessionId("gemini")} :
        /\ LET after == delete_session(sessions, conversations, id)
           IN  /\ SameElsewhere(sessions, after[1], id)
               /\ SameElsewhere(conversations, after[2], id)
        /\ \A m \in Messages :
              LET after == add_conversation(sessions, conversations, id, m,
                                            <<"gpt", "r1">>)
                  old == StoredHistory(id)
              IN  /\ SameElsewhere(sessions, after[1], id)
                  /\ SameElsewhere(conversations, after[2], id)
                  /\ Len(after[2][id]) = Len(old) + 1
                  /\ SubSeq(after[2][id], 1, Len(old)) = old

\* two sessions hold a turn each, one of them saved after a delete was
\* answered: an add or a delete on one of them has another to leave alone
C38_Witness ==
    /\ cleared.found
    /\ "gpt_user_session" \in DOMAIN conversations
    /\ "clova_user_session" \in DOMAIN conversations
    /\ Len(conversations["gpt_user_session"]) = 1
    /\ Len(conversations["clova_user_session"]) = 1
    /\ "clova_user_session" \in DOMAIN sessions
    /\ sessions["clova_user_session"].conversation_count = 1

Markers == {"debate_completed", "single_agent_processed", "debate_fallback"}

\* the state that left the moderator node has a final_recommendation and
\* one marker at the end of processing_steps (the list is empty when the
\* node is entered)
MarkedOnce ==
    /\ ~ turn.final_recommendation.is_none
    /\ Len(turn.processing_steps) = 1
    /\ turn.processing_steps[1] \in Markers

\* with two or more responses every path through moderate_debate sets
\* final_recommendation and appends one marker
MarkedOnceInDebate ==
    (turn.moderated /\ Cardinality(turn.at_moderator) >= 2) => MarkedOnce

\* C39: on every path through the moderator node (0, 1, or two or more
\* expert responses; each moderator LLM call succeeding, failing, or
\* returning unparsable text), the state that leaves the node has
\* final_recommendation set and exactly one of the markers debate_completed,
\* single_agent_processed, debate_fallback appended to processing_steps,
\* with the earlier entries preserved.
C39_ModeratorSetsRecommendationAndMarker ==
    turn.moderated => MarkedOnce

====
